---- MODULE Spec2Model ----
(***************************************************************************)
(* Model of kitty/rc/send_text.py: the client-side chunk encoder           *)
(* (SendText.message_to_kitty.chunks) and the host-side handler            *)
(* (SendText.response_from_kitty) with the broadcast-session table         *)
(* sessions_map, the expiry timers of the event loop and the               *)
(* actions_on_close hooks of the windows.                                  *)
(***************************************************************************)
EXTENDS Integers, Sequences, FiniteSets, TLC

\* ------------------------------------------------------------------ bounds
\* Windows are numbered 1..NumWindows; window ids are never reused.
NumWindows == 3
\* The windows open when the session traffic of Spec and FairSpec starts.
OpenWindows == 2
\* Longest list of close hooks a window holds (each start control appends).
MaxHooks == 2
\* Longest literal text (in code points) given to the chunk encoder.
MaxTextLen == 5
\* The encoder's limit (1024 in the source) scaled to the model's texts.
limit == 2

\* ------------------------------------------------------------- vocabulary
Windows == 1..NumWindows
\* The absent window (Python None).
None == 0
\* Session ids; "" is the default of payload_get('session_id', '').
Sids == {"", "a", "b"}
\* The tab each window lives in: tab 1 holds the odd windows, tab 2 the even
\* ones, so that the windows of the tabs in tab order are not in id order.
TabOf(w) == IF w % 2 = 1 THEN 1 ELSE 2
Tabs == {TabOf(w) : w \in Windows}
\* Window match expressions: "" is no expression.
MatchSpecs == {"", "id:2"}
\* Tab match expressions: "" is no expression.
MatchTabSpecs == {"", "id:1", "id:9", "title:sh"}
\* Payload kinds: the part of pdata before and after the colon.
Kinds == {"text", "base64", "kitty-key", "kitty-key-bad",
          "session-start", "session-end", "session-other", "unknown"}

VARIABLES
    window_id_map,     \* boss.window_id_map: the set of open windows
    active_window,     \* boss.active_window: an open window or None
    cursor,            \* w.screen.render_unfocused_cursor of every window
    actions_on_close,  \* w.actions_on_close: the session ids of the hooks
    sessions_map,      \* sessions_map: session id -> Session
    timers,            \* the loop's outstanding timers: [id, sid]
    last,              \* what the last event was and what it did
    quiet,             \* session ids no client sends requests for any more
    text,              \* chunks(): the expanded text given to the encoder
    data,              \* chunks(): the local variable data
    out                \* chunks(): the chunks yielded so far

vars == <<window_id_map, active_window, cursor, actions_on_close,
          sessions_map, timers, last, quiet, text, data, out>>
hostvars == <<window_id_map, active_window, cursor, actions_on_close,
              sessions_map, timers, last, quiet>>
chunkvars == <<text, data, out>>

\* ------------------------------------------------------- the host registry
RECURSIVE SortedSeq(_)
\* The windows (or tabs) of a set in registry order, lowest id first.
SortedSeq(S) ==
    IF S = {} THEN <<>>
    ELSE LET m == CHOOSE x \in S : \A y \in S : x <= y
         IN <<m>> \o SortedSeq(S \ {m})

\* The elements of a sequence.
Range(s) == {s[i] : i \in 1..Len(s)}

\* boss.all_windows
all_windows == SortedSeq(window_id_map)

\* boss.match_windows(match): "id:2" names window 2.
match_windows(match) ==
    SortedSeq({w \in window_id_map : match = "id:2" /\ w = 2})

\* boss.match_tabs(mt): "id:1" names tab 1, "id:9" no tab, "title:sh" every
\* tab; a tab exists while it holds an open window.
match_tabs(mt) ==
    SortedSeq({t \in Tabs : /\ (mt = "id:1" /\ t = 1) \/ mt = "title:sh"
                            /\ \E w \in window_id_map : TabOf(w) = t})

\* tuple(tab): the open windows of a tab.
tab_windows(t) == SortedSeq({w \in window_id_map : TabOf(w) = t})

RECURSIVE FlattenTabs(_)
\* for tab in tabs: windows += tuple(tab)
FlattenTabs(tabs) ==
    IF tabs = <<>> THEN <<>>
    ELSE tab_windows(Head(tabs)) \o FlattenTabs(Tail(tabs))

\* resolve_windows in which a window expression overrides a tab expression.
resolve_windows_match_first(req) ==
    IF req.all THEN [err |-> "none", windows |-> all_windows]
    ELSE IF req.match # ""
         THEN [err |-> "none", windows |-> match_windows(req.match)]
         ELSE IF req.match_tab # ""
              THEN IF match_tabs(req.match_tab) = <<>>
                   THEN [err |-> "MatchError", windows |-> <<>>]
                   ELSE [err |-> "none",
                         windows |-> FlattenTabs(match_tabs(req.match_tab))]
              ELSE [err |-> "none", windows |-> <<active_window>>]

\* resolve_windows with the check for an empty tab match left out.
resolve_windows_no_raise(req) ==
    IF req.all THEN [err |-> "none", windows |-> all_windows]
    ELSE IF req.match_tab # ""
         THEN [err |-> "none",
               windows |-> FlattenTabs(match_tabs(req.match_tab))]
         ELSE IF req.match # ""
              THEN [err |-> "none", windows |-> match_windows(req.match)]
              ELSE [err |-> "none", windows |-> <<active_window>>]

\* The list windows of response_from_kitty, or the MatchError it raises.
resolve_windows(req) ==
    IF req.all THEN [err |-> "none", windows |-> all_windows]
    ELSE IF req.match_tab # ""
         THEN IF match_tabs(req.match_tab) = <<>>
              THEN [err |-> "MatchError", windows |-> <<>>]
              ELSE [err |-> "none",
                    windows |-> FlattenTabs(match_tabs(req.match_tab))]
         ELSE IF req.match # ""
              THEN [err |-> "none", windows |-> match_windows(req.match)]
              ELSE [err |-> "none", windows |-> <<active_window>>]

\* decode_error that lets a payload with an unknown tag through.
decode_error_unknown_passes(kind) ==
    IF kind = "kitty-key-bad" THEN "ValueError" ELSE "none"

\* The error the decoding of pdata raises, if any.
decode_error(kind) ==
    IF kind = "kitty-key-bad" THEN "ValueError"
    ELSE IF kind = "unknown" THEN "TypeError"
    ELSE "none"

\* The local variable session: q for a session payload, else ''.
session_of(kind) ==
    IF kind = "session-start" THEN "start"
    ELSE IF kind = "session-end" THEN "end"
    ELSE IF kind = "session-other" THEN "other"
    ELSE ""

\* actual_windows with the exclude_active test left out.
actual_windows_keep_active(windows, exclude_active) ==
    SelectSeq(windows, LAMBDA w : w # None)

\* The generator actual_windows, as the list it yields.
actual_windows(windows, exclude_active) ==
    SelectSeq(windows, LAMBDA w : /\ w # None
                                  /\ (~exclude_active \/ w # active_window))

\* ------------------------------------------------------ the session table
\* Session.__init__
Session(id) == [window_ids |-> {}, timer_id |-> 0]

\* remove_timer(timer_id)
remove_timer(tm, timer_id) == {t \in tm : t.id # timer_id}

\* The handle add_timer returns: an id no outstanding timer has.
new_timer_id(tm) ==
    CHOOSE i \in 1..(Cardinality(tm) + 1) :
        /\ \A t \in tm : t.id # i
        /\ \A j \in 1..(i - 1) : \E t \in tm : t.id = j

\* add_timer(partial(clear_unfocused_cursors, sid), blink_time, False)
add_timer(tm, sid) == tm \cup {[id |-> new_timer_id(tm), sid |-> sid]}

\* create_or_update_session that forgets the old timer without removing it
\* from the loop.
create_or_update_session_keep_timer(sid, sm, tm) ==
    LET sm1 == IF sid \in DOMAIN sm THEN sm ELSE sm @@ (sid :> Session(sid))
    IN [sm |-> [sm1 EXCEPT ![sid].timer_id = 0], tm |-> tm]

\* create_or_update_session: the table and the timers it leaves.
create_or_update_session(sid, sm, tm) ==
    LET sm1 == IF sid \in DOMAIN sm THEN sm ELSE sm @@ (sid :> Session(sid))
        s == sm1[sid]
    IN IF s.timer_id # 0
       THEN [sm |-> [sm1 EXCEPT ![sid].timer_id = 0],
             tm |-> remove_timer(tm, s.timer_id)]
       ELSE [sm |-> sm1, tm |-> tm]

\* clear_unfocused_cursors that pops the session and leaves the flags.
clear_unfocused_cursors_keep_flags(sid, sm, cur, open) ==
    IF sid \in DOMAIN sm
    THEN [sm |-> [x \in DOMAIN sm \ {sid} |-> sm[x]],
          cur |-> cur,
          purged |-> {[sid |-> sid, window_ids |-> sm[sid].window_ids]}]
    ELSE [sm |-> sm, cur |-> cur, purged |-> {}]

\* clear_unfocused_cursors that reads the session with get instead of pop.
clear_unfocused_cursors_no_pop(sid, sm, cur, open) ==
    IF sid \in DOMAIN sm
    THEN [sm |-> sm,
          cur |-> [w \in Windows |->
                     IF w \in sm[sid].window_ids /\ w \in open
                     THEN 0 ELSE cur[w]],
          purged |-> {}]
    ELSE [sm |-> sm, cur |-> cur, purged |-> {}]

\* clear_unfocused_cursors(sid): the table and the flags it leaves, with
\* open the windows of boss.window_id_map.
clear_unfocused_cursors(sid, sm, cur, open) ==
    IF sid \in DOMAIN sm
    THEN [sm |-> [x \in DOMAIN sm \ {sid} |-> sm[x]],
          cur |-> [w \in Windows |->
                     IF w \in sm[sid].window_ids /\ w \in open
                     THEN 0 ELSE cur[w]],
          purged |-> {[sid |-> sid, window_ids |-> sm[sid].window_ids]}]
    ELSE [sm |-> sm, cur |-> cur, purged |-> {}]

\* --------------------------------------------------------------- requests
\* One remote send-text command: the payload fields and the window it was
\* sent from (None when it came from outside any window).
Requests ==
    [all : BOOLEAN, match : MatchSpecs, match_tab : MatchTabSpecs,
     exclude_active : BOOLEAN, kind : Kinds, session_id : Sids,
     window : {None} \cup Windows]

\* The request recorded for an event that is not a request.
NoRequest ==
    [all |-> FALSE, match |-> "", match_tab |-> "", exclude_active |-> FALSE,
     kind |-> "none", session_id |-> "", window |-> None]

\* The record of an event: what it was, the windows it iterated over, the
\* exception it raised, the bytes it wrote and the sessions it popped.
Event(op, req, arg, windows, err, writes, purged) ==
    [op |-> op, req |-> req, arg |-> arg, windows |-> windows, err |-> err,
     writes |-> writes, purged |-> purged]

\* w.encoded_key(data): window 3 is in a mode that encodes the key as ''.
encoded_key(w) == IF w = 3 THEN "" ELSE "key"

\* write_to_child that leaves the loop after the first window.
write_to_child_first_only(ws, kind) ==
    IF ws = <<>> THEN <<>>
    ELSE IF kind = "kitty-key"
         THEN IF encoded_key(Head(ws)) # ""
              THEN <<<<Head(ws), encoded_key(Head(ws))>>>> ELSE <<>>
         ELSE <<<<Head(ws), kind>>>>

RECURSIVE write_to_child(_, _)
\* The writes of the loop over actual_windows in the data branch.
write_to_child(ws, kind) ==
    IF ws = <<>> THEN <<>>
    ELSE LET w == Head(ws)
             rest == write_to_child(Tail(ws), kind)
         IN IF kind = "kitty-key"
            THEN IF encoded_key(w) # "" THEN <<<<w, encoded_key(w)>>>> \o rest
                 ELSE rest
            ELSE <<<<w, kind>>>> \o rest

\* session == 'end' (lines 195-200)
end_branch(req, ws) ==
    LET sid == req.session_id
        c == create_or_update_session(sid, sessions_map, timers)
        aw == Range(ws)
        cur1 == [w \in Windows |-> IF w \in aw THEN 0 ELSE cursor[w]]
        sm1 == [c.sm EXCEPT ![sid].window_ids = @ \ aw]
        p == clear_unfocused_cursors(sid, sm1, cur1, window_id_map)
    IN [sm |-> p.sm, tm |-> c.tm, cur |-> p.cur, hooks |-> actions_on_close,
        err |-> "none", writes |-> <<>>, purged |-> p.purged]

\* refresh_session that schedules a timer for a new session only: a
\* refresh cancels the timer and schedules none.
refresh_session_no_reschedule(sid, ws) ==
    LET c == create_or_update_session(sid, sessions_map, timers)
        aw == Range(ws)
        fresh == sid \notin DOMAIN sessions_map
    IN [sm |-> [c.sm EXCEPT ![sid] =
                   [window_ids |-> @.window_ids \cup aw,
                    timer_id |-> IF fresh THEN new_timer_id(c.tm) ELSE 0]],
        tm |-> IF fresh THEN add_timer(c.tm, sid) ELSE c.tm,
        cur |-> [w \in Windows |-> IF w \in aw THEN 1 ELSE cursor[w]]]

\* s = create_or_update_session(); s.timer_id = add_timer(...), and the
\* loop that sets the flag of, and adds, every window of ws.
refresh_session(sid, ws) ==
    LET c == create_or_update_session(sid, sessions_map, timers)
        aw == Range(ws)
    IN [sm |-> [c.sm EXCEPT ![sid] =
                   [window_ids |-> @.window_ids \cup aw,
                    timer_id |-> new_timer_id(c.tm)]],
        tm |-> add_timer(c.tm, sid),
        cur |-> [w \in Windows |-> IF w \in aw THEN 1 ELSE cursor[w]]]

\* start_branch that appends no close hook.
start_branch_no_hook(req, ws) ==
    LET r == refresh_session(req.session_id, ws)
    IN [sm |-> r.sm, tm |-> r.tm, cur |-> r.cur, hooks |-> actions_on_close,
        err |-> "none", writes |-> <<>>, purged |-> {}]

\* session == 'start' (lines 201-208)
start_branch(req, ws) ==
    LET r == refresh_session(req.session_id, ws)
    IN [sm |-> r.sm, tm |-> r.tm, cur |-> r.cur,
        hooks |-> IF req.window # None
                  THEN [actions_on_close EXCEPT
                           ![req.window] = Append(@, req.session_id)]
                  ELSE actions_on_close,
        err |-> "none", writes |-> <<>>, purged |-> {}]

\* data_branch that does the session bookkeeping whatever sid is.
data_branch_always_session(req, ws) ==
    LET r == refresh_session(req.session_id, ws)
    IN [sm |-> r.sm, tm |-> r.tm, cur |-> r.cur, hooks |-> actions_on_close,
        err |-> "none", writes |-> write_to_child(ws, req.kind),
        purged |-> {}]

\* The else branch (lines 209-222). A session payload that is neither
\* start nor end leaves data unbound: the first window of the loop raises
\* after its flag and membership were set.
data_branch(req, ws) ==
    LET sid == req.session_id
        unbound == req.kind = "session-other"
        done == IF unbound /\ ws # <<>> THEN <<Head(ws)>> ELSE ws
        r == IF sid # "" THEN refresh_session(sid, done)
             ELSE [sm |-> sessions_map, tm |-> timers, cur |-> cursor]
    IN [sm |-> r.sm, tm |-> r.tm, cur |-> r.cur, hooks |-> actions_on_close,
        err |-> IF unbound /\ ws # <<>> THEN "UnboundLocalError" ELSE "none",
        writes |-> IF unbound THEN <<>> ELSE write_to_child(ws, req.kind),
        purged |-> {}]

\* SendText.response_from_kitty(boss, window, payload_get)
response_from_kitty(req) ==
    /\ req.window \in {None} \cup window_id_map
    /\ LET rw == resolve_windows(req)
           derr == decode_error(req.kind)
           ws == actual_windows(rw.windows, req.exclude_active)
       IN IF rw.err # "none" \/ derr # "none"
          THEN /\ last' = Event("send_text", req, None, <<>>,
                                IF rw.err # "none" THEN rw.err ELSE derr,
                                <<>>, {})
               /\ UNCHANGED <<window_id_map, active_window, cursor,
                              actions_on_close, sessions_map, timers>>
          ELSE LET b == IF session_of(req.kind) = "end"
                        THEN end_branch(req, ws)
                        ELSE IF session_of(req.kind) = "start"
                        THEN start_branch(req, ws)
                        ELSE data_branch(req, ws)
               IN /\ \A w \in Windows : Len(b.hooks[w]) <= MaxHooks
                  /\ sessions_map' = b.sm
                  /\ timers' = b.tm
                  /\ cursor' = b.cur
                  /\ actions_on_close' = b.hooks
                  /\ last' = Event("send_text", req, None, ws, b.err,
                                   b.writes, b.purged)
                  /\ UNCHANGED <<window_id_map, active_window>>
    /\ UNCHANGED <<quiet, chunkvars>>

\* ------------------------------------------------- timers, closes, focus
\* The loop fires a timer: clear_unfocused_cursors(sid, timer_id). The
\* timer does not repeat, so the loop drops it.
fire_timer(t) ==
    /\ t \in timers
    /\ LET p == clear_unfocused_cursors(t.sid, sessions_map, cursor,
                                        window_id_map)
       IN /\ timers' = timers \ {t}
          /\ sessions_map' = p.sm
          /\ cursor' = p.cur
          /\ last' = Event("timer", NoRequest, t, <<>>, "none", <<>>,
                           p.purged)
    /\ UNCHANGED <<window_id_map, active_window, actions_on_close, quiet,
                   chunkvars>>

RECURSIVE run_actions_on_close(_, _, _, _)
\* for a in actions_on_close: a(window), every a being
\* partial(clear_unfocused_cursors, sid).
run_actions_on_close(hooks, sm, cur, open) ==
    IF hooks = <<>> THEN [sm |-> sm, cur |-> cur, purged |-> {}]
    ELSE LET p == clear_unfocused_cursors(Head(hooks), sm, cur, open)
             r == run_actions_on_close(Tail(hooks), p.sm, p.cur, open)
         IN [sm |-> r.sm, cur |-> r.cur, purged |-> p.purged \cup r.purged]

\* A window is closed: it leaves the registry and its close actions run.
\* The last window is never closed (the program would quit).
close_window(w) ==
    /\ w \in window_id_map
    /\ Cardinality(window_id_map) > 1
    /\ LET open == window_id_map \ {w}
           r == run_actions_on_close(actions_on_close[w], sessions_map,
                                     cursor, open)
       IN /\ window_id_map' = open
          /\ sessions_map' = r.sm
          /\ cursor' = [r.cur EXCEPT ![w] = 0]
          /\ actions_on_close' = [actions_on_close EXCEPT ![w] = <<>>]
          /\ active_window' \in IF active_window = w THEN open
                                ELSE {active_window}
          /\ last' = Event("close", NoRequest, w, <<>>, "none", <<>>,
                           r.purged)
    /\ UNCHANGED <<timers, quiet, chunkvars>>

\* The user focuses another open window.
focus_window(w) ==
    /\ w \in window_id_map
    /\ w # active_window
    /\ active_window' = w
    /\ last' = Event("focus", NoRequest, w, <<>>, "none", <<>>, {})
    /\ UNCHANGED <<window_id_map, cursor, actions_on_close, sessions_map,
                   timers, quiet, chunkvars>>

\* The clients stop sending requests that carry session id sid.
quiesce(sid) ==
    /\ sid \notin quiet
    /\ quiet' = quiet \cup {sid}
    /\ UNCHANGED <<window_id_map, active_window, cursor, actions_on_close,
                   sessions_map, timers, last, chunkvars>>

\* ------------------------------------------------------ the chunk encoder
\* The code points of the model's texts: one ASCII, one two-byte.
CodePoints == {"h", "é"}

\* str.encode('utf-8') of one code point.
utf8(c) == IF c = "h" THEN <<104>> ELSE <<195, 169>>

RECURSIVE encode(_)
\* str.encode('utf-8')
encode(str) ==
    IF str = <<>> THEN <<>> ELSE utf8(Head(str)) \o encode(Tail(str))

RECURSIVE decode(_)
\* bytes.decode('utf-8', 'replace'): "?" stands for a malformed unit.
decode(bytes) ==
    IF bytes = <<>> THEN <<>>
    ELSE IF Head(bytes) = 104 THEN <<"h">> \o decode(Tail(bytes))
    ELSE IF Head(bytes) = 195 /\ Len(bytes) >= 2 /\ bytes[2] = 169
         THEN <<"é">> \o decode(Tail(Tail(bytes)))
    ELSE <<"?">> \o decode(Tail(bytes))

\* data[:n] taken on the encoded bytes instead of the code points.
take_bytes(str, n) ==
    decode(SubSeq(encode(str), 1,
                  IF n < Len(encode(str)) THEN n ELSE Len(encode(str))))

\* data[:n] of a str: its first n code points.
take(str, n) == SubSeq(str, 1, IF n < Len(str) THEN n ELSE Len(str))

\* data[n:] of a str.
drop(str, n) == SubSeq(str, n + 1, Len(str))

\* One turn of the while loop of chunks(): yield data[:limit], keep the rest.
chunks_step ==
    /\ data # <<>>
    /\ out' = Append(out, take(data, limit))
    /\ data' = drop(data, limit)
    /\ UNCHANGED <<text, hostvars>>

\* --------------------------------------------------------- specifications
EmptyMap == [x \in {} |-> Session(x)]

\* The host with its first n windows open, window 1 active and no session.
HostInit(n) ==
    /\ window_id_map = 1..n
    /\ active_window = 1
    /\ cursor = [w \in Windows |-> 0]
    /\ actions_on_close = [w \in Windows |-> <<>>]
    /\ sessions_map = EmptyMap
    /\ timers = {}
    /\ last = Event("init", NoRequest, None, <<>>, "none", <<>>, {})
    /\ quiet = {}

Init ==
    /\ HostInit(OpenWindows)
    /\ text = <<>>
    /\ data = <<>>
    /\ out = <<>>

\* The traffic of Spec: text and session controls for the sessions "a" and
\* "b", addressed to all windows or to the active one, sent from outside
\* any window or (a start control for "a") from window 1.
SessionRequests ==
    {r \in Requests :
        /\ r.match = "" /\ r.match_tab = "" /\ ~r.exclude_active
        /\ r.kind \in {"text", "session-start", "session-end"}
        /\ r.session_id \in {"a", "b"}
        /\ r.window \in {None, 1}
        /\ (r.window # None
               => r.kind = "session-start" /\ r.session_id = "a")}

Next ==
    \/ \E req \in SessionRequests : response_from_kitty(req)
    \/ \E t \in timers : fire_timer(t)
    \/ \E w \in Windows : close_window(w)
    \/ \E w \in Windows : focus_window(w)

Spec == Init /\ [][Next]_vars

\* The traffic that sets the stage in DispatchSpec: start controls for
\* session "a" on all windows or on the active one.
SetupRequests ==
    {r \in SessionRequests :
        r.kind = "session-start" /\ r.session_id = "a" /\ r.window = None}

\* The requests DispatchSpec handles: every payload kind and selector,
\* without a session id or for session "a", start controls also from
\* within window 1; the tab expression that matches every tab comes with
\* text payloads without session id only.
DispatchRequests ==
    {r \in Requests :
        /\ r.session_id \in {"", "a"}
        /\ r.window \in {None, 1}
        /\ (r.kind # "session-start" => r.window = None)
        /\ (r.match_tab = "title:sh"
               => r.kind = "text" /\ r.session_id = "")}

\* DispatchSpec stops after the first request that is not stage setting.
Probed == last.op = "send_text" /\ last.req \notin SetupRequests

DispatchInit ==
    /\ HostInit(NumWindows)
    /\ text = <<>>
    /\ data = <<>>
    /\ out = <<>>

DispatchNext ==
    \/ ~Probed /\ \E req \in DispatchRequests : response_from_kitty(req)
    \/ ~Probed /\ \E t \in timers : fire_timer(t)
    \/ ~Probed /\ \E w \in Windows : close_window(w)
    \/ ~Probed /\ \E w \in Windows : focus_window(w)

DispatchSpec == DispatchInit /\ [][DispatchNext]_vars

\* The traffic of FairSpec: the session traffic for session "a" alone, from
\* clients that may stop sending for it.
FairRequests == {r \in SessionRequests : r.session_id = "a"}

FairNext ==
    \/ \E req \in FairRequests :
          req.session_id \notin quiet /\ response_from_kitty(req)
    \/ \E t \in timers : fire_timer(t)
    \/ \E w \in Windows : close_window(w)
    \/ \E w \in Windows : focus_window(w)
    \/ \E sid \in Sids : sid # "" /\ quiesce(sid)

\* The loop fires every timer that stays scheduled.
FairSpec ==
    /\ Init
    /\ [][FairNext]_vars
    /\ \A sid \in Sids : WF_vars(\E t \in timers : t.sid = sid /\ fire_timer(t))

\* The texts given to the encoder: every str of at most MaxTextLen code
\* points.
Texts == UNION {[1..n -> CodePoints] : n \in 0..MaxTextLen}

ChunkInit ==
    /\ HostInit(OpenWindows)
    /\ text \in Texts
    /\ data = text
    /\ out = <<>>

ChunkNext == chunks_step

ChunkSpec == ChunkInit /\ [][ChunkNext]_vars

\* ------------------------------------------------------------- properties
\* Session sid is in the live table.
Live(sid) == sid \in DOMAIN sessions_map

\* The outstanding timers whose callback purges session sid.
TimersOf(sid) == {t \in timers : t.sid = sid}

\* The sessions window w is a member of.
SessionsOf(sm, w) == {x \in DOMAIN sm : w \in sm[x].window_ids}

\* C1: after any sequence of start controls, refreshes, end controls,
\* timer firings and window closes, every session id has at most one
\* outstanding expiry timer.
C1_AtMostOneTimerPerSession ==
    \A sid \in Sids : Cardinality(TimersOf(sid)) <= 1

\* C2: an outstanding expiry timer for session id X implies that X is in
\* the live table, whichever way X was removed before.
C2_TimerImpliesLive ==
    \A t \in timers : Live(t.sid)

\* C3: a step that purges session X (an end control, a timer firing or a
\* close hook) leaves X absent and the flag of every still-open window of
\* X's member set false; an end control, the firing of a timer of X and
\* the close of a window holding a hook of X each leave X absent.
C3_PurgeClearsMembers ==
    [][/\ \A sid \in Sids :
            (sid \in DOMAIN sessions_map /\ sid \notin DOMAIN sessions_map')
            => \A w \in sessions_map[sid].window_ids \cap window_id_map' :
                   cursor'[w] = 0
       /\ (last'.op = "send_text" /\ last'.err = "none"
              /\ last'.req.kind = "session-end")
          => last'.req.session_id \notin DOMAIN sessions_map'
       /\ (last'.op = "timer")
          => last'.arg.sid \notin DOMAIN sessions_map'
       /\ (last'.op = "close")
          => \A sid \in Range(actions_on_close[last'.arg]) :
                 sid \notin DOMAIN sessions_map'
      ]_vars

\* An end control has purged a session that still held an open window
\* outside the resolved set; that window's flag is now false.
C3_Witness ==
    /\ last.op = "send_text"
    /\ last.req.kind = "session-end"
    /\ \E p \in last.purged :
          \E w \in p.window_ids \cap window_id_map :
              w \notin Range(last.windows) /\ cursor[w] = 0

\* C4: an end control for a session id that is not in the live table
\* raises no error and leaves the session table, the timers and every
\* window's flag unchanged.
C4_EndUnknownIsNoOp ==
    [][(/\ last'.op = "send_text"
        /\ last'.req.kind = "session-end"
        /\ last'.req.session_id \notin DOMAIN sessions_map)
       => /\ last'.err = "none"
          /\ sessions_map' = sessions_map
          /\ timers' = timers
          /\ cursor' = cursor
      ]_vars

\* The session sid was popped by the last event, a timer firing or a
\* close hook, and every still-open window it held has its flag false.
ExpiredClean(sid) ==
    /\ ~Live(sid)
    /\ last.op \in {"timer", "close"}
    /\ \E p \in last.purged :
          /\ p.sid = sid
          /\ \A w \in p.window_ids \cap window_id_map : cursor[w] = 0

\* C5: once no further request carries the id of a live session, the
\* session is eventually purged by a timer firing (or by a close hook, if
\* a window holding one is closed first): it is absent from the table
\* and the flag of every still-open member is false.
C5_QuietSessionExpires ==
    \A sid \in Sids \ {""} :
        (sid \in quiet /\ Live(sid)) ~> ExpiredClean(sid)

\* A timer firing has purged a session that no request refreshed any
\* more, and the session held windows.
C5_Witness ==
    /\ last.op = "timer"
    /\ \E p \in last.purged : p.sid \in quiet /\ p.window_ids # {}

\* The step closes window w.
ClosesWindow(w) ==
    /\ w \in window_id_map
    /\ w \notin window_id_map'
    /\ last'.op = "close"
    /\ last'.arg = w

HandlesRequest == last'.op = "send_text"

\* The step leaves the flag and the session membership of window w alone.
Untouched(w) ==
    /\ cursor'[w] = cursor[w]
    /\ SessionsOf(sessions_map', w) = SessionsOf(sessions_map, w)

\* C7 as claimed: a request with exclude_active writes nothing to the
\* active window and changes neither its flag nor its membership; with
\* all it acts on exactly the open windows but the active one.
C7_ActiveNeverActedOn ==
    [][(HandlesRequest /\ last'.req.exclude_active)
       => /\ active_window \notin Range(last'.windows)
          /\ \A i \in 1..Len(last'.writes) :
                 last'.writes[i][1] # active_window
          /\ Untouched(active_window)
          /\ (last'.req.all /\ last'.err = "none")
             => Range(last'.windows) = window_id_map \ {active_window}
      ]_vars

\* C7 as amended: a request with exclude_active never has the active
\* window in the list it iterates over (with all, that list is exactly
\* the open windows but the active one) and writes nothing to it; a start
\* control or a data payload leaves its flag and membership alone; an end
\* control touches it only through the purge of the ended session, of
\* which it then was a member.
C7_ActiveExcludedFromLoop ==
    [][(HandlesRequest /\ last'.req.exclude_active)
       => /\ active_window \notin Range(last'.windows)
          /\ \A i \in 1..Len(last'.writes) :
                 last'.writes[i][1] # active_window
          /\ (last'.req.all /\ last'.err = "none")
             => Range(last'.windows) = window_id_map \ {active_window}
          /\ last'.req.kind # "session-end" => Untouched(active_window)
          /\ (last'.req.kind = "session-end" /\ ~Untouched(active_window))
             => /\ last'.req.session_id \in DOMAIN sessions_map
                /\ active_window
                     \in sessions_map[last'.req.session_id].window_ids
                /\ \A sid \in DOMAIN sessions_map' :
                       sessions_map'[sid] = sessions_map[sid]
      ]_vars

\* A text payload with all and exclude_active was written to every open
\* window but the active one, and there are at least two such windows.
C7_Witness ==
    /\ last.op = "send_text"
    /\ last.req.all /\ last.req.exclude_active
    /\ last.req.kind = "text"
    /\ Len(last.windows) >= 2
    /\ Range(last.windows) = window_id_map \ {active_window}
    /\ {last.writes[i][1] : i \in 1..Len(last.writes)}
           = window_id_map \ {active_window}

\* C8: a request without all whose tab expression matches no tab raises
\* MatchError, writes nothing and leaves the session table, the timers,
\* the close hooks and the flags unchanged, whatever its payload and
\* session id.
C8_NoTabMatchFails ==
    [][(/\ HandlesRequest
        /\ ~last'.req.all
        /\ last'.req.match_tab # ""
        /\ match_tabs(last'.req.match_tab) = <<>>)
       => /\ last'.err = "MatchError"
          /\ last'.writes = <<>>
          /\ UNCHANGED <<sessions_map, timers, actions_on_close, cursor>>
      ]_vars

\* A start control carrying a session id failed with MatchError while a
\* session was live.
C8_Witness ==
    /\ last.op = "send_text"
    /\ last.err = "MatchError"
    /\ last.req.kind = "session-start"
    /\ last.req.session_id # ""
    /\ DOMAIN sessions_map # {}

RECURSIVE Concat(_)
\* The concatenation of a sequence of strs.
Concat(ss) == IF ss = <<>> THEN <<>> ELSE Head(ss) \o Concat(Tail(ss))

\* C9: every chunk holds between 1 and limit code points, survives the
\* UTF-8 round trip on its own (no chunk boundary inside a multi-byte
\* unit), the chunks yielded so far followed by the rest reproduce the
\* text, there are at most as many chunks as code points, and once the
\* encoder is done the chunks reproduce the text exactly.
C9_ChunksReassemble ==
    /\ \A i \in 1..Len(out) :
          /\ Len(out[i]) >= 1
          /\ Len(out[i]) <= limit
          /\ decode(encode(out[i])) = out[i]
    /\ Concat(out) \o data = text
    /\ encode(Concat(out)) \o encode(data) = encode(text)
    /\ Len(out) <= Len(text)
    /\ data = <<>> => Concat(out) = text

\* The encoder is done with a text of the greatest length that holds a
\* two-byte code point, and it yielded several chunks, the last one short.
C9_Witness ==
    /\ data = <<>>
    /\ Len(text) = MaxTextLen
    /\ "é" \in Range(text)
    /\ Len(out) >= 2
    /\ Concat(out) = text

\* C10: a text, binary or key payload without a session id leaves the
\* session table, the timers, the close hooks and every flag unchanged.
C10_NoSessionIdNoBookkeeping ==
    [][(/\ HandlesRequest
        /\ last'.req.kind \in {"text", "base64", "kitty-key"}
        /\ last'.req.session_id = "")
       => UNCHANGED <<sessions_map, timers, actions_on_close, cursor>>
      ]_vars

\* A text payload without a session id was written to a window whose flag
\* is off, while a session was live.
C10_Witness ==
    /\ last.op = "send_text"
    /\ last.req.kind = "text"
    /\ last.req.session_id = ""
    /\ DOMAIN sessions_map # {}
    /\ \E i \in 1..Len(last.writes) : cursor[last.writes[i][1]] = 0

\* The windows the last request wrote to.
Written(ev) == {ev.writes[i][1] : i \in 1..Len(ev.writes)}

\* The step does the bookkeeping of a start control for session x on the
\* windows of targets: x is live afterwards, with targets added to its
\* member set; every other session is as it was; the flag of every target
\* is true and no other flag changed; the timer x had is cancelled and one
\* new timer, the one x now names, is scheduled.
SessionBookkeeping(x, targets) ==
    /\ x \in DOMAIN sessions_map'
    /\ DOMAIN sessions_map' = DOMAIN sessions_map \cup {x}
    /\ sessions_map'[x].window_ids
           = (IF x \in DOMAIN sessions_map
              THEN sessions_map[x].window_ids ELSE {}) \cup targets
    /\ \A y \in DOMAIN sessions_map \ {x} : sessions_map'[y] = sessions_map[y]
    /\ \A w \in Windows :
           cursor'[w] = IF w \in targets THEN 1 ELSE cursor[w]
    /\ LET prior == IF x \in DOMAIN sessions_map
                    THEN {t \in timers : t.id = sessions_map[x].timer_id}
                    ELSE {}
           kept == timers \ prior
       IN \E t \in timers' :
              /\ t \notin kept
              /\ t.sid = x
              /\ t.id = sessions_map'[x].timer_id
              /\ timers' = kept \cup {t}

\* C11: a text, binary or key payload carrying a non-empty session id X
\* does the session bookkeeping of a start control for X on the same
\* resolved windows (both leave the table, the member sets, the flags and
\* the timers as SessionBookkeeping says); the start control writes
\* nothing, the text or binary payload is written to every resolved
\* window.
C11_DataRefreshesLikeStart ==
    [][(/\ HandlesRequest
        /\ last'.err = "none"
        /\ last'.req.session_id # ""
        /\ last'.req.kind \in {"text", "base64", "kitty-key", "session-start"})
       => /\ SessionBookkeeping(last'.req.session_id, Range(last'.windows))
          /\ last'.req.kind = "session-start" => last'.writes = <<>>
          /\ last'.req.kind \in {"text", "base64"}
             => Written(last') = Range(last'.windows)
      ]_vars

\* A text payload carrying session id "a" was written to two windows or
\* more; "a" is live with those windows as members, their flags are true
\* and "a" has exactly the timer it names.
C11_Witness ==
    /\ last.op = "send_text"
    /\ last.req.kind = "text"
    /\ last.req.session_id = "a"
    /\ Len(last.windows) >= 2
    /\ Written(last) = Range(last.windows)
    /\ Live("a")
    /\ Range(last.windows) \subseteq sessions_map["a"].window_ids
    /\ \A w \in Range(last.windows) : cursor[w] = 1
    /\ TimersOf("a") = {[id |-> sessions_map["a"].timer_id, sid |-> "a"]}

\* The writes of event ev that went to window w.
WritesTo(ev, w) == {i \in 1..Len(ev.writes) : ev.writes[i][1] = w}

\* C12: a request handled without error writes nothing if it is a start or
\* end control; a text or binary payload is written exactly once to every
\* resolved window left after the exclusion of the active one, and to no
\* other window; a key event is written at most once to each of those
\* windows, and is left out exactly where its encoding is empty.
C12_WritesOfOneRequest ==
    [][(HandlesRequest /\ last'.err = "none")
       => LET req == last'.req
              targets == {w \in Range(resolve_windows(req).windows) :
                             /\ w # None
                             /\ (req.exclude_active => w # active_window)}
          IN /\ req.kind \in {"session-start", "session-end"}
                => last'.writes = <<>>
             /\ req.kind \in {"text", "base64"}
                => /\ \A w \in Windows :
                          Cardinality(WritesTo(last', w))
                              = IF w \in targets THEN 1 ELSE 0
                   /\ \A i \in 1..Len(last'.writes) :
                          last'.writes[i][2] = req.kind
             /\ req.kind = "kitty-key"
                => /\ \A w \in Windows :
                          Cardinality(WritesTo(last', w))
                              = IF w \in targets /\ encoded_key(w) # ""
                                THEN 1 ELSE 0
                   /\ \A i \in 1..Len(last'.writes) :
                          last'.writes[i][2] = encoded_key(last'.writes[i][1])
      ]_vars

\* A key event sent to three windows or more was written to two of them
\* and left out for window 3, whose encoding of the key is empty.
C12_Witness ==
    /\ last.op = "send_text"
    /\ last.err = "none"
    /\ last.req.kind = "kitty-key"
    /\ Len(last.windows) >= 3
    /\ 3 \in Range(last.windows)
    /\ Written(last) = Range(last.windows) \ {3}
    /\ Len(last.writes) = Len(last.windows) - 1

\* C13: a payload whose tag is not recognised, or a key event that cannot
\* be decoded, fails with an error (the MatchError of the resolution if
\* that fails first) before any effect: nothing is written and the
\* session table, the timers, the close hooks and the flags are as they
\* were, session id or not; what earlier requests did stays in place.
C13_DecodeErrorBeforeEffects ==
    [][(HandlesRequest /\ last'.req.kind \in {"unknown", "kitty-key-bad"})
       => /\ last'.err
                = IF resolve_windows(last'.req).err # "none" THEN "MatchError"
                  ELSE IF last'.req.kind = "unknown" THEN "TypeError"
                  ELSE "ValueError"
          /\ last'.writes = <<>>
          /\ UNCHANGED <<sessions_map, timers, actions_on_close, cursor,
                         window_id_map, active_window>>
      ]_vars

\* A payload with an unknown tag and the id of the live session "a",
\* addressed to all windows, failed with TypeError; "a" still has its
\* members, their flags and its timer.
C13_Witness ==
    /\ last.op = "send_text"
    /\ last.err = "TypeError"
    /\ last.req.all
    /\ last.req.session_id = "a"
    /\ Live("a")
    /\ sessions_map["a"].window_ids # {}
    /\ \A w \in sessions_map["a"].window_ids \cap window_id_map :
           cursor[w] = 1
    /\ TimersOf("a") # {}

\* C14: a start control for X sent from within a window appends a close
\* hook for X to that window, and one sent from outside any window leaves
\* every window's hooks as they were; closing a window that holds a hook
\* for a live session X does what the expiry of X does: X is absent
\* afterwards, the flag of every member of X that is still open is false,
\* and the purge is on record with the member set X had. (A step that
\* handles a request leaves quiet as it is; a client falling silent keeps
\* the record of the last request in place and is no request.)
C14_CloseOfOriginPurges ==
    [][/\ (/\ HandlesRequest
            /\ quiet' = quiet
            /\ last'.err = "none"
            /\ last'.req.kind = "session-start")
          => actions_on_close'
                 = IF last'.req.window = None THEN actions_on_close
                   ELSE [actions_on_close EXCEPT
                            ![last'.req.window]
                                = Append(@, last'.req.session_id)]
       /\ \A w \in Windows :
              ClosesWindow(w)
              => \A x \in Range(actions_on_close[w]) \cap DOMAIN sessions_map :
                     /\ x \notin DOMAIN sessions_map'
                     /\ \A m \in sessions_map[x].window_ids
                                   \cap window_id_map' : cursor'[m] = 0
                     /\ [sid |-> x,
                         window_ids |-> sessions_map[x].window_ids]
                            \in last'.purged
      ]_vars

\* Window 1, from which a start control for "a" came, was closed while "a"
\* was live with an open member: "a" is gone and that member's flag is
\* false.
C14_Witness ==
    /\ last.op = "close"
    /\ last.arg = 1
    /\ ~Live("a")
    /\ \E p \in last.purged :
           /\ p.sid = "a"
           /\ \E m \in p.window_ids \cap window_id_map : cursor[m] = 0

\* The list s holds no window twice and lists its windows tab by tab, the
\* windows of one tab in id order.
TabThenMember(s) ==
    \A i, j \in 1..Len(s) :
        i < j => \/ TabOf(s[i]) < TabOf(s[j])
                 \/ TabOf(s[i]) = TabOf(s[j]) /\ s[i] < s[j]

\* The list s holds its windows in id order, none twice.
InIdOrder(s) == \A i, j \in 1..Len(s) : i < j => s[i] < s[j]

\* C15: the windows a request handled without error iterates over are,
\* the active one taken out if exclude_active is set: with all, every open
\* window, whatever the expressions; else with a tab expression, the open
\* windows of the matched tabs, tab by tab, whatever the window
\* expression; else with a window expression, the windows it matches;
\* else the active window alone. The resolution changes nothing: no
\* request changes the registry, and a data payload without session id,
\* which resolves and writes, leaves sessions, timers, hooks and flags as
\* they were under every selector.
C15_ResolverPrecedence ==
    [][HandlesRequest
       => LET req == last'.req
              ws == last'.windows
              keep(S) == {w \in S : ~req.exclude_active \/ w # active_window}
              tab_matched == {w \in window_id_map :
                                 \/ req.match_tab = "title:sh"
                                 \/ req.match_tab = "id:1" /\ TabOf(w) = 1}
          IN /\ UNCHANGED <<window_id_map, active_window>>
             /\ (last'.err = "none"
                    /\ last'.req.kind \in {"text", "base64", "kitty-key"}
                    /\ last'.req.session_id = "")
                => UNCHANGED <<sessions_map, timers, actions_on_close, cursor>>
             /\ last'.err = "none"
                => IF req.all
                   THEN Range(ws) = keep(window_id_map) /\ InIdOrder(ws)
                   ELSE IF req.match_tab # ""
                   THEN Range(ws) = keep(tab_matched) /\ TabThenMember(ws)
                   ELSE IF req.match # ""
                   THEN Range(ws) = keep(window_id_map \cap {2})
                   ELSE ws = SelectSeq(<<active_window>>,
                                       LAMBDA w : ~req.exclude_active)
      ]_vars

\* A request with the window expression "id:2" and a tab expression that
\* matches both tabs iterated over the windows 1, 3, 2: the tab expression
\* won, and the windows came tab by tab.
C15_Witness ==
    /\ last.op = "send_text"
    /\ last.err = "none"
    /\ ~last.req.all
    /\ last.req.match = "id:2"
    /\ last.req.match_tab = "title:sh"
    /\ last.windows = <<1, 3, 2>>

\* The close hooks for session sid that window w holds.
HooksOf(hooks, w, sid) == {i \in 1..Len(hooks[w]) : hooks[w][i] = sid}

\* C16: after every step no window holds more than one close hook for the
\* same session id, and after an end control for X no window holds a
\* close hook for X.
C16_OneHookPerWindowAndSession ==
    [][/\ \A w \in Windows : \A sid \in Sids :
              Cardinality(HooksOf(actions_on_close', w, sid)) <= 1
       /\ (/\ HandlesRequest
            /\ last'.err = "none"
            /\ last'.req.kind = "session-end")
          => \A w \in Windows :
                 HooksOf(actions_on_close', w, last'.req.session_id) = {}
      ]_vars

\* C17: in every state between two events, every session of the live table
\* has exactly one outstanding expiry timer.
C17_LiveHasExactlyOneTimer ==
    \A x \in DOMAIN sessions_map : Cardinality(TimersOf(x)) = 1

\* C18: a step removes a live session X only if it is an end control for
\* X, the firing of the timer X names (the one its latest start or refresh
\* scheduled), or the close of a window that holds a close hook for X. The
\* last case is taken at its widest, a hook of any age, so a violation is
\* a removal the claim rules out whatever the age of the hooks.
C18_RemovedOnlyByOwnEvents ==
    [][\A x \in Sids :
          (x \in DOMAIN sessions_map /\ x \notin DOMAIN sessions_map')
          => \/ /\ HandlesRequest
                /\ last'.req.kind = "session-end"
                /\ last'.req.session_id = x
             \/ /\ last'.op = "timer"
                /\ last'.arg = [id |-> sessions_map[x].timer_id, sid |-> x]
             \/ /\ last'.op = "close"
                /\ x \in Range(actions_on_close[last'.arg])
      ]_vars

\* C19: every open window in the member set of a live session has its
\* flag true, so no end control, expiry or close leaves a window without
\* its flag while it is a member of another live session.
C19_MembersOfLiveSessionsFlagged ==
    \A x \in DOMAIN sessions_map :
        \A w \in sessions_map[x].window_ids \cap window_id_map :
            cursor[w] = 1

\* C20: no step leaves a session with id "" in the live table, a timer for
\* "" or a close hook for "", and a request without session id, start and
\* end controls included, leaves the table and the timers as they were and
\* sets no flag.
C20_EmptyIdIsNoSession ==
    [][/\ "" \notin DOMAIN sessions_map'
       /\ \A t \in timers' : t.sid # ""
       /\ \A w \in Windows : "" \notin Range(actions_on_close'[w])
       /\ (HandlesRequest /\ last'.req.session_id = "")
          => /\ sessions_map' = sessions_map
             /\ timers' = timers
             /\ \A w \in Windows : cursor[w] = 0 => cursor'[w] = 0
      ]_vars

====
